---- MODULE Spec2Model ----
(***************************************************************************)
(* Model of the financial engine of src/src/App.jsx: runFinancialModel     *)
(* (lines 27-194) and runSensitivity (lines 197-216).                      *)
(*                                                                         *)
(* Numbers.  The engine computes on IEEE doubles.  The model computes on   *)
(* exact rationals (the real-number reading of every formula), held as a   *)
(* sign, a numerator and a denominator; numerator and denominator are      *)
(* naturals of arbitrary size, written as little-endian sequences of       *)
(* base-10000 limbs, because TLC's integers are 32 bits wide and the       *)
(* discounting, annuity and bisection formulas leave that range.           *)
(* Rounding of doubles is outside the model, with one exception: the       *)
(* learning-curve power Math.pow(n, Math.log(LR) / Math.log(2)) of lines   *)
(* 64-67, whose exponent is a rounded quotient of logarithms and whose     *)
(* result the language leaves to the implementation.  Where the exponent   *)
(* is not a whole number the model takes the exact power moved by ulps     *)
(* units in the last place, ulps being any of -1, 0, 1, fixed per run.     *)
(***************************************************************************)
EXTENDS Integers, Sequences, FiniteSets, TLC

-----------------------------------------------------------------------------
(* Arbitrary-size naturals: <<>> is 0, limb 1 is the least significant.    *)

Base == 100 * 100

NatOfInt(i) ==
  IF i = 0 THEN <<>>
  ELSE IF i < Base THEN <<i>>
  ELSE IF i < Base * Base THEN <<i % Base, i \div Base>>
  ELSE <<i % Base, (i \div Base) % Base, i \div (Base * Base)>>

Limb(a, i) == IF i <= Len(a) THEN a[i] ELSE 0

RECURSIVE NatTrimR(_, _)
NatTrimR(a, n) ==
  IF n = 0 THEN <<>>
  ELSE IF a[n] # 0 THEN (IF n = Len(a) THEN a ELSE SubSeq(a, 1, n))
  ELSE NatTrimR(a, n - 1)

NatTrim(a) == NatTrimR(a, Len(a))

RECURSIVE NatAddR(_, _, _, _)
NatAddR(a, b, i, c) ==
  IF i > Len(a) /\ i > Len(b)
  THEN (IF c = 0 THEN <<>> ELSE <<c>>)
  ELSE LET s == Limb(a, i) + Limb(b, i) + c
       IN  <<s % Base>> \o NatAddR(a, b, i + 1, s \div Base)

NatAdd(a, b) ==
  IF a = <<>> THEN b ELSE IF b = <<>> THEN a ELSE NatAddR(a, b, 1, 0)

RECURSIVE NatCmpR(_, _, _)
NatCmpR(a, b, i) ==
  IF i = 0 THEN 0
  ELSE IF a[i] < b[i] THEN -1
  ELSE IF a[i] > b[i] THEN 1
  ELSE NatCmpR(a, b, i - 1)

\* -1, 0, 1 as a < b, a = b, a > b
NatCmp(a, b) ==
  IF Len(a) < Len(b) THEN -1
  ELSE IF Len(a) > Len(b) THEN 1
  ELSE NatCmpR(a, b, Len(a))

RECURSIVE NatSubR(_, _, _, _)
NatSubR(a, b, i, c) ==
  IF i > Len(a) THEN <<>>
  ELSE LET s == a[i] - Limb(b, i) - c
       IN  IF s < 0
           THEN <<s + Base>> \o NatSubR(a, b, i + 1, 1)
           ELSE <<s>> \o NatSubR(a, b, i + 1, 0)

\* a - b, for a >= b
NatSub(a, b) == IF b = <<>> THEN a ELSE NatTrim(NatSubR(a, b, 1, 0))

RECURSIVE NatMulSmallR(_, _, _, _)
NatMulSmallR(a, k, i, c) ==
  IF i > Len(a)
  THEN (IF c = 0 THEN <<>> ELSE IF c < Base THEN <<c>> ELSE <<c % Base, c \div Base>>)
  ELSE LET s == a[i] * k + c
       IN  <<s % Base>> \o NatMulSmallR(a, k, i + 1, s \div Base)

\* a * k, for 0 <= k < Base
NatMulSmall(a, k) ==
  IF k = 0 \/ a = <<>> THEN <<>>
  ELSE IF k = 1 THEN a
  ELSE NatMulSmallR(a, k, 1, 0)

NatShift(a) == IF a = <<>> THEN <<>> ELSE <<0>> \o a

RECURSIVE NatMulR(_, _, _)
NatMulR(a, b, i) ==
  IF i > Len(a) THEN <<>>
  ELSE NatAdd(NatMulSmall(b, a[i]), NatShift(NatMulR(a, b, i + 1)))

NatMul(a, b) ==
  IF a = <<>> \/ b = <<>> THEN <<>>
  ELSE IF a = <<1>> THEN b
  ELSE IF b = <<1>> THEN a
  ELSE NatMulR(IF Len(a) <= Len(b) THEN a ELSE b, IF Len(a) <= Len(b) THEN b ELSE a, 1)

RECURSIVE NatModSmallR(_, _, _, _)
NatModSmallR(a, k, i, r) ==
  IF i = 0 THEN r ELSE NatModSmallR(a, k, i - 1, (r * Base + a[i]) % k)

\* a mod k, for 0 < k < Base
NatModSmall(a, k) == NatModSmallR(a, k, Len(a), 0)

RECURSIVE NatDivSmallR(_, _, _, _)
NatDivSmallR(a, k, i, r) ==
  IF i = 0 THEN <<>>
  ELSE LET s == r * Base + a[i]
       IN  NatDivSmallR(a, k, i - 1, s % k) \o <<s \div k>>

\* a div k, for 0 < k <= Base
NatDivSmall(a, k) == IF k = 1 THEN a ELSE NatTrim(NatDivSmallR(a, k, Len(a), 0))

RECURSIVE Gcd(_, _)
Gcd(a, b) == IF b = 0 THEN a ELSE Gcd(b, a % b)

-----------------------------------------------------------------------------
(* Exact rationals: sg is -1, 0 or 1, n the magnitude of the numerator,    *)
(* d > 0 the denominator.  A value is reduced to lowest terms whenever its *)
(* denominator is a single limb; values are compared with QCmp, never with *)
(* =, because a larger denominator may be left unreduced.                  *)

QZero == [sg |-> 0, n |-> <<>>, d |-> <<1>>]

\* the factors of 2 and 5 (the primes of Base) that n and d share
LowGcd(n, d) ==
  Gcd(Gcd(IF n[1] = 0 THEN Base ELSE n[1], IF d[1] = 0 THEN Base ELSE d[1]), Base)

RECURSIVE QStrip(_, _)
QStripBy(n, d, g) ==
  IF g = 1 THEN <<n, d>> ELSE QStrip(NatDivSmall(n, g), NatDivSmall(d, g))

\* n and d with their common factors of 2 and 5 removed
QStrip(n, d) == QStripBy(n, d, LowGcd(n, d))

QBy(sg, n, k, g) == [sg |-> sg, n |-> NatDivSmall(n, g), d |-> <<k \div g>>]

\* lowest terms when the denominator is one limb
QLowest(sg, p) ==
  IF Len(p[2]) = 1
  THEN QBy(sg, p[1], p[2][1], Gcd(p[2][1], NatModSmall(p[1], p[2][1])))
  ELSE [sg |-> sg, n |-> p[1], d |-> p[2]]

QMake(sg, n, d) ==
  IF sg = 0 \/ n = <<>> THEN QZero ELSE QLowest(sg, QStrip(n, d))

\* the integer i, and the fraction a/b of integers (b > 0)
QInt(i) == IF i = 0 THEN QZero
           ELSE [sg |-> IF i < 0 THEN -1 ELSE 1,
                 n |-> NatOfInt(IF i < 0 THEN -i ELSE i), d |-> <<1>>]

QFrac(a, b) == QMake(IF a < 0 THEN -1 ELSE IF a = 0 THEN 0 ELSE 1,
                     NatOfInt(IF a < 0 THEN -a ELSE a), NatOfInt(b))

QOne == QInt(1)

QNeg(x) == [x EXCEPT !.sg = -x.sg]

QSign(x) == x.sg

QAbs(x) == [x EXCEPT !.sg = IF x.sg = 0 THEN 0 ELSE 1]

QAddCmp(sg1, n1, sg2, n2, d, c) ==
  QMake(IF sg1 = sg2 \/ c > 0 THEN sg1 ELSE IF c = 0 THEN 0 ELSE sg2,
        IF sg1 = sg2 THEN NatAdd(n1, n2)
        ELSE IF c > 0 THEN NatSub(n1, n2) ELSE IF c = 0 THEN <<>> ELSE NatSub(n2, n1),
        d)

\* the sum of sg1*n1/d and sg2*n2/d over one denominator d
QAddSame(sg1, n1, sg2, n2, d) ==
  QAddCmp(sg1, n1, sg2, n2, d, IF sg1 = sg2 THEN 0 ELSE NatCmp(n1, n2))

QAdd(x, y) ==
  IF x.sg = 0 THEN y
  ELSE IF y.sg = 0 THEN x
  ELSE QAddSame(x.sg, IF x.d = y.d THEN x.n ELSE NatMul(x.n, y.d),
                y.sg, IF x.d = y.d THEN y.n ELSE NatMul(y.n, x.d),
                IF x.d = y.d THEN x.d ELSE NatMul(x.d, y.d))

QSub(x, y) == QAdd(x, QNeg(y))

QMul(x, y) ==
  IF x.sg = 0 \/ y.sg = 0 THEN QZero
  ELSE QMake(x.sg * y.sg, NatMul(x.n, y.n), NatMul(x.d, y.d))

\* x / y, for y # 0
QDiv(x, y) ==
  IF x.sg = 0 THEN QZero
  ELSE QMake(x.sg * y.sg, NatMul(x.n, y.d), NatMul(x.d, y.n))

\* -1, 0, 1 as x < y, x = y, x > y
QCmp(x, y) ==
  IF x.sg # y.sg THEN (IF x.sg < y.sg THEN -1 ELSE 1)
  ELSE IF x.sg = 0 THEN 0
  ELSE x.sg * NatCmp(IF x.d = y.d THEN x.n ELSE NatMul(x.n, y.d),
                     IF x.d = y.d THEN y.n ELSE NatMul(y.n, x.d))

QLt(x, y) == QCmp(x, y) < 0
QLe(x, y) == QCmp(x, y) <= 0
QEq(x, y) == QCmp(x, y) = 0
QGt(x, y) == QCmp(x, y) > 0
QGe(x, y) == QCmp(x, y) >= 0

QMin(x, y) == IF QLt(y, x) THEN y ELSE x
QMax(x, y) == IF QGt(y, x) THEN y ELSE x

QSquare(h) == QMul(h, h)

\* Math.pow(x, k) for an integer k >= 0, by repeated squaring
RECURSIVE QPow(_, _)
QPow(x, k) ==
  IF k = 0 THEN QOne
  ELSE IF k = 1 THEN x
  ELSE QMul(QSquare(QPow(x, k \div 2)), IF k % 2 = 0 THEN QOne ELSE x)

RECURSIVE NatToIntR(_, _)
NatToIntR(a, i) == IF i > Len(a) THEN 0 ELSE a[i] + Base * NatToIntR(a, i + 1)

\* the value of a natural below 2^31
NatToInt(a) == NatToIntR(a, 1)

QFloorOf(sg, q, exact) == IF sg > 0 THEN q ELSE IF exact THEN -q ELSE -q - 1

\* Math.floor(x), for x with a one-limb denominator and a result below 2^31
QFloor(x) ==
  IF x.sg = 0 THEN 0
  ELSE QFloorOf(x.sg, NatToInt(NatDivSmall(x.n, x.d[1])), NatModSmall(x.n, x.d[1]) = 0)

-----------------------------------------------------------------------------
(* Bounds of the model and the program's literals.                         *)

MaxT == 3
MaxUnits == 3

HoursPerYear == 8760
DaysPerYear == 365
MonthsPerYear == 12
FixedEscPct == 3
MaxIter == 100

Null == <<>>
Some(v) == <<v>>

-----------------------------------------------------------------------------
(* The inputs object.  N_units, T_loan, T_project and Y_start are          *)
(* integers; every other field is a rational.                              *)

\* the initial inputs of the application (useState, lines 338-350)
BaseInputs ==
  [P_elec |-> QInt(225), P_therm |-> QInt(400), f_avail |-> QFrac(92, 100),
   F_tpd |-> QInt(5), N_units |-> 3,
   R_power |-> QFrac(10, 100), f_power_util |-> QInt(1), r_power |-> QInt(3),
   R_therm |-> QFrac(27, 1000), f_therm_util |-> QInt(1), r_therm |-> QInt(3),
   R_tipping |-> QInt(80), W_tpy |-> QInt(3000), r_tipping |-> QInt(3),
   CC_methane |-> QInt(1200), CC_fuel |-> QInt(1100), CC_emissions |-> QInt(500),
   P_carbon |-> QInt(20), r_carbon |-> QInt(3),
   C_cust_power |-> QFrac(143, 1000), C_cust_therm |-> QFrac(34, 1000),
   C_cust_waste |-> QInt(100),
   C_biochp |-> QInt(660000), C_enexfuel |-> QInt(45000), C_install |-> QInt(25000),
   C_site |-> QInt(12500),
   R_maint |-> QFrac(25, 1000), C_fuel_process |-> QInt(70),
   C_insurance |-> QInt(2000), C_acct_mgmt |-> QInt(2920),
   r_maint |-> QInt(3), r_fuel |-> QInt(3),
   f_equity |-> QFrac(50, 100), r_debt |-> QInt(6), T_loan |-> 5,
   f_loan_fees |-> QInt(2),
   r_disc |-> QInt(7), T_project |-> 10, Y_start |-> 2026,
   LR |-> QFrac(90, 100), units_per_year |-> QInt(2)]

-----------------------------------------------------------------------------
(* runFinancialModel, lines 41-82: the values computed before the loop.    *)

hours_yr(inp) == QMul(QInt(HoursPerYear), inp.f_avail)
E_power_yr(inp) == QMul(inp.P_elec, hours_yr(inp))
E_therm_yr(inp) == QMul(inp.P_therm, hours_yr(inp))
F_tpy(inp) == QMul(QMul(inp.F_tpd, QInt(DaysPerYear)), inp.f_avail)
CC_net(inp) == QMax(QZero, QSub(QAdd(inp.CC_methane, inp.CC_fuel), inp.CC_emissions))

\* line 63 with the site cost added to the unit's capital cost
CAPEX_unit1WithSite(inp) ==
  QAdd(QAdd(QAdd(inp.C_biochp, inp.C_enexfuel), inp.C_install), inp.C_site)

CAPEX_unit1(inp) == QAdd(QAdd(inp.C_biochp, inp.C_enexfuel), inp.C_install)

\* The rounding of Math.pow(n, Math.log(LR) / Math.log(2)) in the build that
\* runs the code, in units of 2^-52 relative to the exact power: the language
\* leaves the results of Math.log and Math.pow to the implementation.
VARIABLE ulps

Ulp == QPow(QFrac(1, 2), 52)

\* the error the build may make
Roundings == {-1, 0, 1}

\* log(LR) / log(2) is an integer, and the power of a whole n is exact
ExactExponent(LR) == \E k \in {QFrac(1, 4), QFrac(1, 2), QOne, QInt(2)} : QEq(LR, k)

\* x rounded e ulps away from its exact value
Rounded(x, e) == QMul(x, QAdd(QOne, QMul(QInt(e), Ulp)))

RECURSIVE Log2(_)
\* k when n = 2^k, and -1 when n is no power of two
Log2(n) == IF n = 1 THEN 0
           ELSE IF n % 2 # 0 THEN -1
           ELSE LET k == Log2(n \div 2) IN IF k < 0 THEN -1 ELSE k + 1

\* n^(log(LR) / log(2)) where it is rational: n^b with
\* b = log2(LR) is 1 for n = 1 or LR = 1, LR^k for n = 2^k, and 1/n for LR = 1/2.
\* The inputs of the model keep to these cases.
ExactPower(n, LR) ==
  IF n = 1 \/ QEq(LR, QOne) THEN QOne
  ELSE IF Log2(n) >= 0 THEN QPow(LR, Log2(n))
  ELSE QFrac(1, n)

\* line 67 without the learning curve
LearnFactorFlat(n, LR) == QOne

\* line 67: the power as the build computes it; 1^b is 1 in every build
LearnFactor(n, LR) ==
  IF n = 1 \/ ExactExponent(LR) THEN ExactPower(n, LR)
  ELSE Rounded(ExactPower(n, LR), ulps)

UnitCapex(inp) ==
  [n \in 1..inp.N_units |-> QMul(CAPEX_unit1(inp), LearnFactor(n, inp.LR))]

RECURSIVE SumSeq(_, _, _)
\* s[from] + ... + s[to], with an index outside s counting 0 (unit_capex[n-1] || 0)
SumSeq(s, from, to) ==
  IF from > to THEN QZero
  ELSE QAdd(SumSeq(s, from, to - 1), IF to \in DOMAIN s THEN s[to] ELSE QZero)

CapexFleetTotal(ucap) == SumSeq(ucap, 1, Len(ucap))

\* line 72 with the equity share taken for the debt share
CAPEX_debtOfEquity(inp, total) == QMul(total, inp.f_equity)

CAPEX_debt(inp, total) == QMul(total, QSub(QOne, inp.f_equity))

\* line 73, from CAPEX_debt
LoanOf(inp, debt) == QMul(debt, QAdd(QOne, QDiv(inp.f_loan_fees, QInt(100))))

LoanAmount(inp, total) == LoanOf(inp, CAPEX_debt(inp, total))

\* line 78: Math.pow(1 + r_monthly, -n_months) is 1 / (1 + r_monthly)^n_months
MonthlyPayment(loan, r_monthly, n_months) ==
  QDiv(QMul(loan, r_monthly),
       QSub(QOne, QDiv(QOne, QPow(QAdd(QOne, r_monthly), n_months))))

\* lines 74-82 with the monthly payment left unconverted
DebtServiceMonthly(inp, debt, loan) ==
  IF QGt(debt, QZero) /\ inp.T_loan > 0 /\ QGt(inp.r_debt, QZero)
  THEN MonthlyPayment(loan, QDiv(QDiv(inp.r_debt, QInt(100)), QInt(MonthsPerYear)),
                      inp.T_loan * MonthsPerYear)
  ELSE IF QGt(debt, QZero) /\ inp.T_loan > 0
  THEN QDiv(loan, QInt(inp.T_loan))
  ELSE QZero

\* lines 74-82, from CAPEX_debt and loan_amount
DebtServiceOf(inp, debt, loan) ==
  IF QGt(debt, QZero) /\ inp.T_loan > 0 /\ QGt(inp.r_debt, QZero)
  THEN QMul(MonthlyPayment(loan, QDiv(QDiv(inp.r_debt, QInt(100)), QInt(MonthsPerYear)),
                           inp.T_loan * MonthsPerYear),
            QInt(MonthsPerYear))
  ELSE IF QGt(debt, QZero) /\ inp.T_loan > 0
  THEN QDiv(loan, QInt(inp.T_loan))
  ELSE QZero

AnnualDebtService(inp, total) ==
  DebtServiceOf(inp, CAPEX_debt(inp, total), LoanAmount(inp, total))

-----------------------------------------------------------------------------
(* runFinancialModel, lines 91-142: one pass of the year loop.             *)

Min2(a, b) == IF a <= b THEN a ELSE b

\* line 93 without the unit of year 0
NDeployedFromZero(inp, yy) ==
  Min2(inp.N_units, QFloor(QMul(QInt(yy), inp.units_per_year)))

\* line 93 without the cap at the fleet size
NDeployedUncapped(inp, yy) == QFloor(QMul(QInt(yy), inp.units_per_year)) + 1

\* line 93 (and line 94 for the year before)
NDeployed(inp, yy) ==
  Min2(inp.N_units, QFloor(QMul(QInt(yy), inp.units_per_year)) + 1)

NPrev(inp, yy) == IF yy = 0 THEN 0 ELSE NDeployed(inp, yy - 1)

\* Math.pow(1 + r / 100, y)
Escalation(r, yy) == QPow(QAdd(QOne, QDiv(r, QInt(100))), yy)

\* lines 97-100 with the loop starting at the last unit of the year before
CapexYearFromPrev(inp, ucap, yy) == SumSeq(ucap, NPrev(inp, yy), NDeployed(inp, yy))

\* lines 97-100
CapexYear(inp, ucap, yy) == SumSeq(ucap, NPrev(inp, yy) + 1, NDeployed(inp, yy))

\* line 110 without the cap at the waste supply
WTippedUncapped(inp, yy) == QMul(QInt(NDeployed(inp, yy)), F_tpy(inp))

\* line 110
WTipped(inp, yy) == QMin(QMul(QInt(NDeployed(inp, yy)), F_tpy(inp)), inp.W_tpy)

\* line 126 with one more year of debt service
DebtServiceDueThrough(inp, ads, yy) == IF yy <= inp.T_loan THEN ads ELSE QZero

\* line 126
DebtServiceDue(inp, ads, yy) == IF yy < inp.T_loan THEN ads ELSE QZero

\* line 127
Dscr(EBITDA, DS) == IF QGt(DS, QZero) THEN Some(QDiv(EBITDA, DS)) ELSE Null

\* lines 130-131 compounding forward instead of discounting
DiscountedForward(CF, r_disc, yy) == QMul(CF, Escalation(r_disc, yy))

\* line 130-131
Discounted(CF, r_disc, yy) == QDiv(CF, Escalation(r_disc, yy))

\* The record of year yy is built in the order of the loop body; each step
\* adds the fields it computes to the record r of the steps before it.

\* lines 92-100, 110, 126.  W_tipped is the loop's local of line 110, kept
\* beside the fields the source pushes.
YearDeploy(inp, ucap, ads, yy) ==
  [y |-> yy, year |-> inp.Y_start + yy, N_deployed |-> NDeployed(inp, yy),
   capex_year |-> CapexYear(inp, ucap, yy), W_tipped |-> WTipped(inp, yy),
   DS |-> DebtServiceDue(inp, ads, yy)]

PerUnitYear(r, perUnit, rate, esc) ==
  QMul(QMul(QMul(QInt(r.N_deployed), perUnit), rate), Escalation(esc, r.y))

\* lines 103-112
YearRevenue(inp, r) ==
  r @@ [R_pwr |-> PerUnitYear(r, QMul(E_power_yr(inp), inp.f_power_util),
                              inp.R_power, inp.r_power),
        R_thrm |-> PerUnitYear(r, QMul(E_therm_yr(inp), inp.f_therm_util),
                               inp.R_therm, inp.r_therm),
        R_tip |-> QMul(QMul(r.W_tipped, inp.R_tipping), Escalation(inp.r_tipping, r.y)),
        R_crb |-> PerUnitYear(r, CC_net(inp), inp.P_carbon, inp.r_carbon)]

\* lines 113-123
YearTotals(inp, r) ==
  r @@ [R_total |-> QAdd(QAdd(QAdd(r.R_pwr, r.R_thrm), r.R_tip), r.R_crb),
        OPEX |-> QAdd(QAdd(PerUnitYear(r, E_power_yr(inp), inp.R_maint, inp.r_maint),
                           PerUnitYear(r, F_tpy(inp), inp.C_fuel_process, inp.r_fuel)),
                      PerUnitYear(r, QOne, QAdd(inp.C_insurance, inp.C_acct_mgmt),
                                  QInt(FixedEscPct)))]

\* lines 125, 128 with the cash flow taken before debt service
YearCashBeforeDebt(r) ==
  r @@ [EBITDA |-> QSub(r.R_total, r.OPEX),
        CF |-> QSub(QSub(r.R_total, r.OPEX), r.capex_year)]

\* lines 125, 128
YearCash(r) ==
  r @@ [EBITDA |-> QSub(r.R_total, r.OPEX),
        CF |-> QSub(QSub(QSub(r.R_total, r.OPEX), r.capex_year), r.DS)]

\* lines 127, 130-131
YearDiscount(inp, r) ==
  r @@ [DSCR |-> Dscr(r.EBITDA, r.DS), DCF |-> Discounted(r.CF, inp.r_disc, r.y)]

\* line 132, 140
YearCumulate(r, cum_dcf) == r @@ [cumNPV |-> QAdd(cum_dcf, r.DCF)]

\* The record pushed for year yy (lines 138-141), given the cumulative
\* discounted cash flow before it.
YearRecord(inp, ucap, ads, yy, cum_dcf) ==
  YearCumulate(
    YearDiscount(inp, YearCash(YearTotals(inp, YearRevenue(inp,
      YearDeploy(inp, ucap, ads, yy))))),
    cum_dcf)

\* lines 135-136 without the test for a payback year already set
PaybackLatest(prev, yy, cumulative) ==
  IF yy > 0 /\ QGe(cumulative, QZero) THEN Some(yy) ELSE prev

\* lines 135-136: the payback year after year yy, from the one before it
Payback(prev, yy, cumulative) ==
  IF prev = Null /\ yy > 0 /\ QGe(cumulative, QZero) THEN Some(yy) ELSE prev

-----------------------------------------------------------------------------
(* runFinancialModel, lines 148-161: the bisection for IRR.                *)

IrrLo0 == QFrac(-1, 2)
IrrHi0 == QInt(2)
IrrTol == QFrac(1, 10000)
IrrEdge == QFrac(1, 100)

RECURSIVE NpvTestR(_, _, _)
NpvTestR(yrs, rate, k) ==
  IF k = 0 THEN QZero
  ELSE QAdd(NpvTestR(yrs, rate, k - 1),
            QDiv(yrs[k].CF, QPow(QAdd(QOne, rate), yrs[k].y)))

\* lines 152-155: the sum of CF / (1 + rate)^y over the year records
NpvTest(yrs, rate) == NpvTestR(yrs, rate, Len(yrs))

Mid(l, h) == QDiv(QAdd(l, h), QInt(2))

\* line 156 with the two branches exchanged
BracketAtRising(yrs, l, h, mid) ==
  IF QGt(NpvTest(yrs, mid), QZero) THEN <<l, mid>> ELSE <<mid, h>>

BracketAt(yrs, l, h, mid) ==
  IF QGt(NpvTest(yrs, mid), QZero) THEN <<mid, h>> ELSE <<l, mid>>

\* lines 151-156: the bracket after one iteration
NextBracket(yrs, l, h) == BracketAt(yrs, l, h, Mid(l, h))

\* line 157 with the tolerance of line 159
ConvergedCoarse(l, h) == QLt(QAbs(QSub(h, l)), IrrEdge)

\* line 157
Converged(l, h) == QLt(QAbs(QSub(h, l)), IrrTol)

\* lines 159-161 accepting a bracket of which only one end has moved
IrrOfEitherEnd(l, h) ==
  IF QGt(QAbs(QSub(l, IrrLo0)), IrrEdge) \/ QGt(QAbs(QSub(h, IrrHi0)), IrrEdge)
  THEN Some(Mid(l, h)) ELSE Null

\* lines 159-161 with the tolerance of line 157 for the distance from the ends
IrrOfTightEdge(l, h) ==
  IF QGt(QAbs(QSub(l, IrrLo0)), IrrTol) /\ QGt(QAbs(QSub(h, IrrHi0)), IrrTol)
  THEN Some(Mid(l, h)) ELSE Null

\* lines 159-161
IrrOf(l, h) ==
  IF QGt(QAbs(QSub(l, IrrLo0)), IrrEdge) /\ QGt(QAbs(QSub(h, IrrHi0)), IrrEdge)
  THEN Some(Mid(l, h)) ELSE Null

-----------------------------------------------------------------------------
(* runFinancialModel, lines 163-180: the aggregates and the warnings.      *)

RECURSIVE DscrValuesR(_, _)
DscrValuesR(yrs, k) ==
  IF k = 0 THEN <<>>
  ELSE DscrValuesR(yrs, k - 1) \o (IF yrs[k].DSCR # Null THEN <<yrs[k].DSCR[1]>> ELSE <<>>)

\* line 164
DscrValues(yrs) == DscrValuesR(yrs, Len(yrs))

RECURSIVE MinSeq(_, _)
MinSeq(s, k) == IF k = 1 THEN s[1] ELSE QMin(MinSeq(s, k - 1), s[k])

DscrMinOf(v) == IF Len(v) > 0 THEN Some(MinSeq(v, Len(v))) ELSE Null

\* line 165
DscrMin(yrs) == DscrMinOf(DscrValues(yrs))

\* lines 178-180 with the covenant warning not bounded below
WarningsUnbounded(NPV, DSCR_min) ==
  (IF QLt(NPV, QZero) THEN <<"npv_negative">> ELSE <<>>)
  \o (IF DSCR_min # Null /\ QLt(DSCR_min[1], QOne) THEN <<"dscr_default">> ELSE <<>>)
  \o (IF DSCR_min # Null /\ QLt(DSCR_min[1], QFrac(125, 100))
      THEN <<"dscr_covenant">> ELSE <<>>)

\* lines 178-180, in the order pushed
Warnings(NPV, DSCR_min) ==
  (IF QLt(NPV, QZero) THEN <<"npv_negative">> ELSE <<>>)
  \o (IF DSCR_min # Null /\ QLt(DSCR_min[1], QOne) THEN <<"dscr_default">> ELSE <<>>)
  \o (IF DSCR_min # Null /\ QLt(DSCR_min[1], QFrac(125, 100)) /\ QGe(DSCR_min[1], QOne)
      THEN <<"dscr_covenant">> ELSE <<>>)

\* lines 59-60 with the guard C_current_total != 0
SavingsOfNonZero(C_current_total, C_enexor_total) ==
  [C_current_total |-> C_current_total, C_enexor_total |-> C_enexor_total,
   savings_annual |-> QSub(C_current_total, C_enexor_total),
   savings_pct |-> IF ~QEq(C_current_total, QZero)
                   THEN QMul(QDiv(QSub(C_current_total, C_enexor_total), C_current_total),
                             QInt(100))
                   ELSE QZero]

\* lines 59-60
SavingsOf(C_current_total, C_enexor_total) ==
  [C_current_total |-> C_current_total, C_enexor_total |-> C_enexor_total,
   savings_annual |-> QSub(C_current_total, C_enexor_total),
   savings_pct |-> IF QGt(C_current_total, QZero)
                   THEN QMul(QDiv(QSub(C_current_total, C_enexor_total), C_current_total),
                             QInt(100))
                   ELSE QZero]

\* lines 49-52 and 54-57: the yearly cost of one unit's output at the given rates
CustomerCost(inp, power_rate, therm_rate, waste_rate) ==
  QAdd(QAdd(QMul(QMul(E_power_yr(inp), inp.f_power_util), power_rate),
            QMul(QMul(E_therm_yr(inp), inp.f_therm_util), therm_rate)),
       QMul(QMin(F_tpy(inp), inp.W_tpy), waste_rate))

\* lines 49-60: the customer-savings comparison
Savings(inp) ==
  SavingsOf(CustomerCost(inp, inp.C_cust_power, inp.C_cust_therm, inp.C_cust_waste),
            CustomerCost(inp, inp.R_power, inp.R_therm, inp.R_tipping))

\* lines 168-175: x per deployed unit of the year-1 record
PerUnit(yr1, x) == IF yr1.N_deployed > 0 THEN QDiv(x, QInt(yr1.N_deployed)) ELSE QZero

\* line 168
Yr1(yrs) == IF Len(yrs) >= 2 THEN yrs[2] ELSE yrs[1]

ResultOf(NPV, IRR, pb_disc, pb_simple, DSCR_min, yr1, sv) ==
  [NPV |-> NPV, IRR |-> IRR, payback_disc |-> pb_disc,
   payback_simple |-> pb_simple, DSCR_min |-> DSCR_min,
   R_per_unit |-> PerUnit(yr1, yr1.R_total),
   R_per_unit_power |-> PerUnit(yr1, yr1.R_pwr),
   R_per_unit_therm |-> PerUnit(yr1, yr1.R_thrm),
   R_per_unit_tip |-> PerUnit(yr1, yr1.R_tip),
   R_per_unit_carbon |-> PerUnit(yr1, yr1.R_crb),
   C_current_total |-> sv.C_current_total, C_enexor_total |-> sv.C_enexor_total,
   savings_annual |-> sv.savings_annual, savings_pct |-> sv.savings_pct,
   warnings |-> Warnings(NPV, DSCR_min),
   yr1_revenue |-> yr1.R_total, yr1_opex |-> yr1.OPEX, yr1_ebitda |-> yr1.EBITDA]

\* lines 145-193: the object returned
Result(inp, yrs, cum_dcf, pb_disc, pb_simple, l, h) ==
  ResultOf(cum_dcf, IrrOf(l, h), pb_disc, pb_simple, DscrMin(yrs), Yr1(yrs), Savings(inp))

-----------------------------------------------------------------------------
(* The inputs the model runs on.                                           *)

\* the worked scenario of the specification: one stream of revenue, no cost
WorkedInputs ==
  [BaseInputs EXCEPT
     !.N_units = 1, !.f_avail = QInt(1), !.P_elec = QInt(100),
     !.f_power_util = QInt(1), !.R_power = QFrac(10, 100),
     !.r_power = QZero, !.r_therm = QZero, !.r_tipping = QZero, !.r_carbon = QZero,
     !.r_maint = QZero, !.r_fuel = QZero,
     !.C_biochp = QZero, !.C_enexfuel = QZero, !.C_install = QZero,
     !.R_maint = QZero, !.C_fuel_process = QZero, !.C_insurance = QZero,
     !.C_acct_mgmt = QZero,
     !.R_therm = QZero, !.R_tipping = QZero, !.P_carbon = QZero,
     !.f_equity = QInt(1), !.r_disc = QZero, !.T_project = 1]

Profile(p) ==
  CASE p = "base" -> BaseInputs
    [] p = "lean" -> [BaseInputs EXCEPT !.C_biochp = QInt(350000), !.LR = QInt(1),
                                        !.W_tpy = QInt(1000)]
    [] p = "worked" -> WorkedInputs
    [] p = "zero" -> [WorkedInputs EXCEPT !.R_power = QZero]
    [] p = "idle" -> [BaseInputs EXCEPT !.R_power = QZero, !.R_therm = QZero,
                                        !.R_tipping = QZero, !.P_carbon = QZero,
                                        !.f_equity = QInt(1)]

DiscRates == {QZero, QInt(7)}
DeployRates == {QZero, QFrac(1, 2), QInt(1), QInt(2)}
EquityFractions == {QInt(1), QFrac(1, 2), QFrac(3, 2)}
LoanTerms == {0, 1, 2}
DebtRates == {QInt(-1), QZero, QInt(12)}

\* a learning rate whose unit costs are rational for a fleet of N units
LearningRate(inp, N) == IF N <= 2 \/ QEq(inp.LR, QOne) THEN inp.LR ELSE QFrac(1, 2)

\* fleets and roll-outs, all equity
RolloutInputs ==
  { [Profile(p) EXCEPT !.N_units = N, !.units_per_year = u, !.T_project = T,
                       !.r_disc = r, !.f_equity = QInt(1),
                       !.LR = LearningRate(Profile(p), N)] :
      p \in {"base", "lean"}, N \in 1..MaxUnits, u \in DeployRates,
      T \in 0..MaxT, r \in DiscRates }

\* financing terms
DebtInputs ==
  { [BaseInputs EXCEPT !.N_units = 2, !.units_per_year = QInt(1), !.T_project = T,
                       !.f_equity = e, !.T_loan = tl, !.r_debt = rd] :
      T \in 0..MaxT, e \in EquityFractions, tl \in LoanTerms, rd \in DebtRates }

\* single-signed cash flows
EdgeInputs ==
  { [Profile(p) EXCEPT !.T_project = T, !.r_disc = r, !.N_units = 1] :
      p \in {"worked", "zero", "idle"}, T \in 0..MaxT, r \in DiscRates }

\* one unit on a one-year loan, with debt cover below 1, between 1 and 1.25, and above
CoverInputs ==
  { [Profile("lean") EXCEPT !.N_units = 1, !.T_project = T, !.r_disc = r,
                            !.f_equity = e, !.T_loan = 1, !.r_debt = QZero] :
      T \in {1, MaxT}, r \in DiscRates, e \in {QFrac(1, 5), QFrac(1, 2), QFrac(4, 5)} }
  \cup
  \* the worked scenario on a one-year loan whose payment, fees included, is
  \* the year's EBITDA of 87,600 divided by 1 and by 1.25
  { [WorkedInputs EXCEPT !.C_biochp = c, !.f_equity = QZero, !.T_loan = 1,
                         !.r_debt = QZero, !.T_project = T] :
      c \in {QFrac(8760000, 102), QFrac(7008000, 102)}, T \in {1, MaxT} }

\* an empty fleet, and customer rates that are zero or negative
GuardInputs ==
  { [BaseInputs EXCEPT !.N_units = N, !.f_equity = QInt(1), !.T_project = T,
                       !.C_cust_power = QMul(@, k), !.C_cust_therm = QMul(@, k),
                       !.C_cust_waste = QMul(@, k)] :
      N \in {0, 1}, T \in {0, 1}, k \in {QInt(-1), QZero, QOne} }

\* two units at learning rates from steep to rising
LearnInputs ==
  { [BaseInputs EXCEPT !.N_units = 2, !.LR = l, !.f_equity = QInt(1),
                       !.units_per_year = QInt(1), !.T_project = 1] :
      l \in {QFrac(1, 100), QFrac(1, 4), QFrac(3, 4), QInt(2)} }

\* the worked scenario over one year at unit costs c, for which the sum of
\* lines 152-155 is 87,600 - c + 87,600 / (1 + rate), zero at the rates
\* 1.99487, 1.98000, -0.48000 and -0.49500
ReturnInputs ==
  { [WorkedInputs EXCEPT !.C_biochp = c] :
      c \in {QInt(116850), QInt(116996), QInt(256062), QInt(261065)} }

\* the worked scenario over one year with maintenance of 43,800 in year 0
\* escalated by g percent: cash flows 43,800 and 87,600 - 43,800 (1 + g/100),
\* in the proportions 100 : -150 and 100 : -200
LateCostInputs ==
  { [WorkedInputs EXCEPT !.R_maint = QFrac(5, 100), !.r_maint = g] :
      g \in {QInt(250), QInt(300)} }

InputSet ==
  RolloutInputs \cup DebtInputs \cup EdgeInputs \cup CoverInputs \cup GuardInputs
    \cup LearnInputs \cup ReturnInputs \cup LateCostInputs

-----------------------------------------------------------------------------
(* The run of runFinancialModel(inputs) as a state machine.                *)

\* fn is the function running, baseNPV and rows are the locals of
\* runSensitivity, and calls is the history of the calls that have returned.
VARIABLES inputs, pc, unit_capex, capex_fleet_total, annual_debt_service,
          y, years, cumulative_dcf, cumulative_cf, payback_disc, payback_simple,
          iter, lo, hi, result, fn, baseNPV, rows, calls

vars == <<inputs, pc, unit_capex, capex_fleet_total, annual_debt_service,
          y, years, cumulative_dcf, cumulative_cf, payback_disc, payback_simple,
          iter, lo, hi, result, fn, baseNPV, rows, calls, ulps>>

\* what runFinancialModel leaves alone
outer == <<fn, baseNPV, rows, calls, ulps>>

\* a variable shared by the calls keeps what the call before left in it
Stale(old, init) == old

\* lines 84-89, 147-149: a local declared with let is bound to its initial
\* value at every call, whatever an earlier call left in it
Fresh(old, init) == init

\* the call: the argument is bound, nothing is computed yet
Init ==
  /\ inputs \in InputSet
  /\ pc = "start"
  /\ unit_capex = <<>>
  /\ capex_fleet_total = QZero
  /\ annual_debt_service = QZero
  /\ y = 0
  /\ years = <<>>
  /\ cumulative_dcf = QZero
  /\ cumulative_cf = QZero
  /\ payback_disc = Null
  /\ payback_simple = Null
  /\ iter = 0
  /\ lo = IrrLo0
  /\ hi = IrrHi0
  /\ result = Null
  /\ fn = "model"
  /\ baseNPV = QZero
  /\ rows = <<>>
  /\ calls = <<>>
  /\ ulps \in (IF ExactExponent(inputs.LR) \/ inputs.N_units < 2 THEN {0} ELSE Roundings)

\* lines 41-89: unit costs, debt service, and the loop variables
Prelude ==
  /\ pc = "start"
  /\ unit_capex' = UnitCapex(inputs)
  /\ capex_fleet_total' = CapexFleetTotal(unit_capex')
  /\ annual_debt_service' = AnnualDebtService(inputs, capex_fleet_total')
  /\ y' = Fresh(y, 0)
  /\ years' = Fresh(years, <<>>)
  /\ cumulative_dcf' = Fresh(cumulative_dcf, QZero)
  /\ cumulative_cf' = Fresh(cumulative_cf, QZero)
  /\ payback_disc' = Fresh(payback_disc, Null)
  /\ payback_simple' = Fresh(payback_simple, Null)
  /\ iter' = Fresh(iter, 0)
  /\ lo' = Fresh(lo, IrrLo0)
  /\ hi' = Fresh(hi, IrrHi0)
  /\ pc' = IF 0 <= inputs.T_project THEN "loop" ELSE "irr"
  /\ UNCHANGED <<inputs, result, outer>>

\* lines 132-141 with line 132 assigning the year's cash flow, not adding it
PushYearCashOnly(rec) ==
  /\ years' = Append(years, rec)
  /\ cumulative_dcf' = rec.cumNPV
  /\ cumulative_cf' = rec.CF
  /\ payback_disc' = Payback(payback_disc, y, cumulative_dcf')
  /\ payback_simple' = Payback(payback_simple, y, cumulative_cf')

\* lines 132-141: the accumulators and the push
PushYear(rec) ==
  /\ years' = Append(years, rec)
  /\ cumulative_dcf' = rec.cumNPV
  /\ cumulative_cf' = QAdd(cumulative_cf, rec.CF)
  /\ payback_disc' = Payback(payback_disc, y, cumulative_dcf')
  /\ payback_simple' = Payback(payback_simple, y, cumulative_cf')

\* lines 91-142: the body of the year loop, once
YearStep ==
  /\ pc = "loop"
  /\ PushYear(YearRecord(inputs, unit_capex, annual_debt_service, y, cumulative_dcf))
  /\ y' = y + 1
  /\ pc' = IF y + 1 <= inputs.T_project THEN "loop" ELSE "irr"
  /\ UNCHANGED <<inputs, unit_capex, capex_fleet_total, annual_debt_service,
                 iter, lo, hi, result, outer>>

\* lines 150-158 without the break of line 157: the loop left by its cap only
SetBracketToCap(l, h) ==
  /\ lo' = l
  /\ hi' = h
  /\ iter' = iter + 1
  /\ pc' = IF iter + 1 >= MaxIter THEN "fin" ELSE "irr"

\* lines 156-157 and the loop's counter
SetBracket(l, h) ==
  /\ lo' = l
  /\ hi' = h
  /\ iter' = IF Converged(l, h) THEN iter ELSE iter + 1
  /\ pc' = IF Converged(l, h) \/ iter + 1 >= MaxIter THEN "fin" ELSE "irr"

BracketStep(b) == SetBracket(b[1], b[2])

\* lines 150-158: one iteration of the bisection; iter is the loop counter
IrrStep ==
  /\ pc = "irr"
  /\ BracketStep(NextBracket(years, lo, hi))
  /\ UNCHANGED <<inputs, unit_capex, capex_fleet_total, annual_debt_service,
                 y, years, cumulative_dcf, cumulative_cf, payback_disc,
                 payback_simple, result, outer>>

\* lines 145, 159-193: the aggregates, the warnings and the return
Finish ==
  /\ pc = "fin"
  /\ result' = Result(inputs, years, cumulative_dcf, payback_disc, payback_simple, lo, hi)
  /\ pc' = "done"
  /\ UNCHANGED <<inputs, unit_capex, capex_fleet_total, annual_debt_service,
                 y, years, cumulative_dcf, cumulative_cf, payback_disc,
                 payback_simple, iter, lo, hi, outer>>

Next == Prelude \/ YearStep \/ IrrStep \/ Finish

Spec == Init /\ [][Next]_vars

\* where the call stands: the statement, and the counters of its two loops
position == <<pc, y, iter>>

\* a move of the position. Every step of Next is one, and Next has a step
\* wherever the call has not returned, so this is Next as far as its being
\* enabled and its being taken go.
Advance ==
  /\ pc # "done"
  /\ pc' \in {"loop", "irr", "fin", "done"}
  /\ y' \in 0..(MaxT + 1)
  /\ iter' \in 0..MaxIter

\* the call keeps running: single-threaded code that has not returned takes
\* its next step
FairSpec == Spec /\ WF_position(Advance)

-----------------------------------------------------------------------------
(* runFinancialModel as a function of its inputs: the NPV it returns.      *)

RECURSIVE CumulativeDcf(_, _, _, _)
\* lines 91-142: cumulative_dcf after the pass of year yy
CumulativeDcf(inp, ucap, ads, yy) ==
  IF yy < 0 THEN QZero
  ELSE YearRecord(inp, ucap, ads, yy, CumulativeDcf(inp, ucap, ads, yy - 1)).cumNPV

\* lines 64-82, from unit_capex
NpvFrom(inp, ucap) ==
  CumulativeDcf(inp, ucap, AnnualDebtService(inp, CapexFleetTotal(ucap)), inp.T_project)

\* line 145: NPV of runFinancialModel(inp)
ModelNPV(inp) == NpvFrom(inp, UnitCapex(inp))

-----------------------------------------------------------------------------
(* runSensitivity, lines 197-216.                                          *)

\* lines 199-208: the parameters perturbed, in the order listed
Params ==
  << [key |-> "R_power", label |-> "Power Rate"],
     [key |-> "R_therm", label |-> "Thermal Rate"],
     [key |-> "R_tipping", label |-> "Tipping Fee"],
     [key |-> "P_carbon", label |-> "Carbon Price"],
     [key |-> "f_avail", label |-> "Availability"],
     [key |-> "C_biochp", label |-> "BioCHP Cost"],
     [key |-> "C_fuel_process", label |-> "Fuel Process Cost"],
     [key |-> "r_disc", label |-> "Discount Rate"] >>

\* the literals 0.8 and 1.2 of lines 210-211
FactorLo == QFrac(8, 10)
FactorHi == QFrac(12, 10)

\* lines 210-211 with a fraction kept within [0, 1]
PerturbedClamped(inp, key, factor) ==
  [inp EXCEPT ![key] = IF key = "f_avail" THEN QMin(QMul(@, factor), QOne)
                       ELSE QMul(@, factor)]

\* lines 210-211: a copy of the inputs with one field scaled
Perturbed(inp, key, factor) == [inp EXCEPT ![key] = QMul(@, factor)]

\* line 214
RowOf(label, npvLo, npvHi, base) ==
  [label |-> label, lo |-> QSub(npvLo, base), hi |-> QSub(npvHi, base),
   range |-> QAbs(QSub(npvHi, npvLo))]

\* lines 209-214: the row of parameter p
SensitivityRow(inp, p, base) ==
  RowOf(p.label, ModelNPV(Perturbed(inp, p.key, FactorLo)),
        ModelNPV(Perturbed(inp, p.key, FactorHi)), base)

RECURSIVE InsertRowAhead(_, _)
\* r placed ahead of the rows whose range equals its own
InsertRowAhead(s, r) ==
  IF s = <<>> THEN <<r>>
  ELSE IF QGt(s[1].range, r.range) THEN <<s[1]>> \o InsertRowAhead(Tail(s), r)
  ELSE <<r>> \o s

RECURSIVE InsertRow(_, _)
\* r placed behind the rows whose range is not smaller than its own
InsertRow(s, r) ==
  IF s = <<>> THEN <<r>>
  ELSE IF QGe(s[1].range, r.range) THEN <<s[1]>> \o InsertRow(Tail(s), r)
  ELSE <<r>> \o s

RECURSIVE SortRows(_, _)
\* line 215: sort((a, b) => b.range - a.range) of the first k rows; the sort
\* of an array is stable
SortRows(rs, k) == IF k = 0 THEN <<>> ELSE InsertRow(SortRows(rs, k - 1), rs[k])

\* line 198
SensBase ==
  /\ pc = "sens_start"
  /\ baseNPV' = ModelNPV(inputs)
  /\ rows' = <<>>
  /\ pc' = "sens_rows"
  /\ UNCHANGED <<inputs, unit_capex, capex_fleet_total, annual_debt_service,
                 y, years, cumulative_dcf, cumulative_cf, payback_disc,
                 payback_simple, iter, lo, hi, result, fn, calls, ulps>>

\* lines 209-214: the callback of map, on the next parameter
SensRow ==
  /\ pc = "sens_rows"
  /\ rows' = Append(rows, SensitivityRow(inputs, Params[Len(rows) + 1], baseNPV))
  /\ pc' = IF Len(rows) + 1 < Len(Params) THEN "sens_rows" ELSE "sens_sort"
  /\ UNCHANGED <<inputs, unit_capex, capex_fleet_total, annual_debt_service,
                 y, years, cumulative_dcf, cumulative_cf, payback_disc,
                 payback_simple, iter, lo, hi, result, fn, baseNPV, calls, ulps>>

\* line 215: the sort, and the return
SensSort ==
  /\ pc = "sens_sort"
  /\ rows' = SortRows(rows, Len(rows))
  /\ pc' = "done"
  /\ UNCHANGED <<inputs, unit_capex, capex_fleet_total, annual_debt_service,
                 y, years, cumulative_dcf, cumulative_cf, payback_disc,
                 payback_simple, iter, lo, hi, result, fn, baseNPV, calls, ulps>>

-----------------------------------------------------------------------------
(* A caller making calls of the two functions, one after the other.        *)

MaxCalls == 2

\* one unit financed by equity; without carbon and tipping revenue and
\* without discounting, three of the parameters have no effect on the NPV
CallInputs ==
  { [BaseInputs EXCEPT !.N_units = 1, !.f_equity = QInt(1), !.T_project = 2],
    [BaseInputs EXCEPT !.N_units = 1, !.f_equity = QInt(1), !.T_project = 1,
                       !.r_disc = QZero, !.P_carbon = QZero, !.R_tipping = QZero],
    [BaseInputs EXCEPT !.N_units = 2, !.LR = QFrac(1, 2), !.f_equity = QInt(1),
                       !.T_project = 1, !.C_biochp = QInt(350000),
                       !.C_fuel_process = QInt(700)],
    \* the last one with another site cost
    [BaseInputs EXCEPT !.N_units = 2, !.LR = QFrac(1, 2), !.f_equity = QInt(1),
                       !.T_project = 1, !.C_biochp = QInt(350000),
                       !.C_fuel_process = QInt(700), !.C_site = QInt(50000)] }

CallsInit ==
  /\ inputs \in CallInputs
  /\ pc = "idle"
  /\ unit_capex = <<>>
  /\ capex_fleet_total = QZero
  /\ annual_debt_service = QZero
  /\ y = 0
  /\ years = <<>>
  /\ cumulative_dcf = QZero
  /\ cumulative_cf = QZero
  /\ payback_disc = Null
  /\ payback_simple = Null
  /\ iter = 0
  /\ lo = IrrLo0
  /\ hi = IrrHi0
  /\ result = Null
  /\ fn = "model"
  /\ baseNPV = QZero
  /\ rows = <<>>
  /\ calls = <<>>
  /\ ulps = 0

\* the caller passes an inputs object to one of the two functions
Call ==
  /\ pc = "idle"
  /\ Len(calls) < MaxCalls
  /\ inputs' \in CallInputs
  /\ \E f \in {"model", "sens"} :
        /\ fn' = f
        /\ pc' = IF f = "model" THEN "start" ELSE "sens_start"
  /\ UNCHANGED <<unit_capex, capex_fleet_total, annual_debt_service,
                 y, years, cumulative_dcf, cumulative_cf, payback_disc,
                 payback_simple, iter, lo, hi, result, baseNPV, rows, calls, ulps>>

\* the value returned: lines 182-193, or line 215
Returned ==
  IF fn = "model"
  THEN result @@ [unit_capex |-> unit_capex, capex_fleet_total |-> capex_fleet_total,
                  annual_debt_service |-> annual_debt_service, years |-> years]
  ELSE rows

\* the call returns to the caller
Return ==
  /\ pc = "done"
  /\ calls' = Append(calls, [fn |-> fn, arg |-> inputs, out |-> Returned])
  /\ pc' = "idle"
  /\ UNCHANGED <<inputs, unit_capex, capex_fleet_total, annual_debt_service,
                 y, years, cumulative_dcf, cumulative_cf, payback_disc,
                 payback_simple, iter, lo, hi, result, fn, baseNPV, rows, ulps>>

CallsNext ==
  Call \/ Prelude \/ YearStep \/ IrrStep \/ Finish \/ SensBase \/ SensRow \/ SensSort \/ Return

Calls == CallsInit /\ [][CallsNext]_vars

-----------------------------------------------------------------------------
(* Claims.                                                                 *)

Done == pc = "done"

Pushed == 1..Len(years)

\* C1 (as stated): in the worked scenario the cash flow of year 0 is 0, that of
\* year 1 is 87,600, NPV is 87,600, IRR is null and the discounted payback is
\* year 1.
C1_AsStated ==
  (Done /\ inputs = WorkedInputs) =>
     /\ QEq(years[1].CF, QZero)
     /\ QEq(years[2].CF, QInt(87600))
     /\ QEq(result.NPV, QInt(87600))
     /\ result.IRR = Null
     /\ result.payback_disc = Some(1)

\* C1 (amended): in the worked scenario the unit of year 0 earns in year 0 as
\* well: the cash flows of year 0 and year 1 are both 87,600, NPV is 175,200,
\* IRR is null and the discounted payback is year 1.
C1_WorkedScenario ==
  (Done /\ inputs = WorkedInputs) =>
     /\ Len(years) = 2
     /\ QEq(years[1].CF, QInt(87600))
     /\ QEq(years[2].CF, QInt(87600))
     /\ QEq(result.NPV, QInt(175200))
     /\ result.IRR = Null
     /\ result.payback_disc = Some(1)

C1_Witness == Done /\ inputs = WorkedInputs /\ QEq(years[1].R_pwr, QInt(87600))

\* floor(yy * units_per_year) + 1 in integer arithmetic, for a rate num/den >= 0
RolloutCount(yy) ==
  (yy * NatToInt(inputs.units_per_year.n)) \div NatToInt(inputs.units_per_year.d) + 1

\* C2: with N_units >= 1 and units_per_year >= 0, the deployed count of year y
\* is min(N_units, floor(y * units_per_year) + 1); it never decreases from one
\* year to the next, never exceeds N_units, and is at least 1 in year 0.
C2_DeployedUnits ==
  (inputs.N_units >= 1 /\ inputs.units_per_year.sg >= 0) =>
     \A k \in Pushed :
        /\ years[k].y = k - 1
        /\ years[k].N_deployed =
             (IF RolloutCount(k - 1) < inputs.N_units THEN RolloutCount(k - 1)
              ELSE inputs.N_units)
        /\ years[k].N_deployed <= inputs.N_units
        /\ k > 1 => years[k - 1].N_deployed <= years[k].N_deployed
        /\ k = 1 => years[k].N_deployed >= 1

\* a roll-out that grows, and the fleet size capping it
C2_Witness ==
  /\ Len(years) >= 3
  /\ years[1].N_deployed < years[2].N_deployed
  /\ years[3].N_deployed = inputs.N_units
  /\ RolloutCount(2) > inputs.N_units

\* C3: in every year record the tonnage behind the tipping revenue is
\* min(N_deployed * F_tpy, W_tpy): never above W_tpy, and W_tpy itself when
\* N_deployed * F_tpy exceeds it, so that R_tip = W_tpy * R_tipping * (1 + r_tipping/100)^y.
C3_WasteCap ==
  \A k \in Pushed :
     /\ QLe(years[k].W_tipped, inputs.W_tpy)
     /\ QLe(years[k].W_tipped, QMul(QInt(years[k].N_deployed), F_tpy(inputs)))
     /\ \/ QEq(years[k].W_tipped, inputs.W_tpy)
        \/ QEq(years[k].W_tipped, QMul(QInt(years[k].N_deployed), F_tpy(inputs)))
     /\ QEq(years[k].R_tip,
            QMul(QMul(years[k].W_tipped, inputs.R_tipping),
                 QPow(QFrac(100 + NatToInt(inputs.r_tipping.n), 100), years[k].y)))
     /\ QGt(QMul(QInt(years[k].N_deployed), F_tpy(inputs)), inputs.W_tpy) =>
          QEq(QMul(years[k].R_tip, QPow(QInt(100), years[k].y)),
              QMul(QMul(inputs.W_tpy, inputs.R_tipping),
                   QPow(QInt(100 + NatToInt(inputs.r_tipping.n)), years[k].y)))

\* a year after year 0 whose deployed throughput exceeds the supply, and one below it
C3_Witness ==
  /\ Len(years) >= 2
  /\ QLt(QMul(QInt(years[1].N_deployed), F_tpy(inputs)), inputs.W_tpy)
  /\ QGt(QMul(QInt(years[Len(years)].N_deployed), F_tpy(inputs)), inputs.W_tpy)
  /\ QGt(years[Len(years)].R_tip, QZero)

RECURSIVE CumCF(_)
\* the undiscounted cash flow of the first k records, summed
CumCF(k) == IF k = 0 THEN QZero ELSE QAdd(CumCF(k - 1), years[k].CF)

\* the years from 1 on, among those pushed, whose cumulative value is >= 0
PaidBackDisc == { k - 1 : k \in { j \in Pushed : j > 1 /\ QGe(years[j].cumNPV, QZero) } }
PaidBackSimple == { k - 1 : k \in { j \in Pushed : j > 1 /\ QGe(CumCF(j), QZero) } }

First(S) == IF S = {} THEN Null ELSE Some(CHOOSE m \in S : \A n \in S : m <= n)

\* C4: payback_disc is the smallest year y >= 1 whose cumulative discounted
\* cash flow is >= 0, and null when there is none; payback_simple likewise on
\* the undiscounted sum.  Year 0 is never the payback year, and a later year
\* with a negative cumulative value does not change a payback year once set:
\* the equality holds after every pass of the loop, and in the result.
C4_Payback ==
  /\ payback_disc = First(PaidBackDisc)
  /\ payback_simple = First(PaidBackSimple)
  /\ payback_disc # Some(0) /\ payback_simple # Some(0)
  /\ Done => /\ result.payback_disc = First(PaidBackDisc)
             /\ result.payback_simple = First(PaidBackSimple)
             /\ Len(years) = inputs.T_project + 1

\* a payback year followed by a year whose cumulative discounted value is negative
C4_Witness ==
  /\ Done
  /\ result.payback_disc # Null
  /\ \E k \in Pushed : k - 1 > result.payback_disc[1] /\ QLt(years[k].cumNPV, QZero)

\* a run whose year 0 is already non-negative, and is not the payback year
C4_WitnessYearZero ==
  /\ Done
  /\ QGe(years[1].cumNPV, QZero)
  /\ result.payback_disc = Some(1)

AllCF(sign) == \A k \in Pushed : years[k].CF.sg = sign

\* C5: when all cash flows share one sign (all > 0, all < 0, or all zero) the
\* bisection finds no sign change: one end of the bracket never moves, and
\* IRR is null.
C5_SameSignNoIrr ==
  (Done /\ (AllCF(1) \/ AllCF(-1) \/ AllCF(0))) =>
     /\ result.IRR = Null
     /\ AllCF(1) => QEq(hi, IrrHi0)
     /\ (AllCF(-1) \/ AllCF(0)) => QEq(lo, IrrLo0)

C5_Witness == Done /\ AllCF(1) /\ Len(years) >= 2 /\ QGt(lo, QInt(1))
C5_WitnessNegative == Done /\ AllCF(-1) /\ Len(years) >= 2
C5_WitnessZero == Done /\ AllCF(0) /\ Len(years) >= 2

\* C6 (as stated): a non-null IRR makes the sum of CF[y] / (1 + IRR)^y over
\* the years differ from zero by less than the tolerance 1e-4.
C6_AsStated ==
  (Done /\ result.IRR # Null) =>
     QLt(QAbs(NpvTest(years, result.IRR[1])), IrrTol)

\* C6 (amended): the tolerance bounds the rate, not the value.  A non-null IRR
\* is the midpoint of a bracket [lo, hi] narrower than 1e-4 inside (-0.5, 2.0),
\* with the sum > 0 at lo and <= 0 at hi; the value of the sum at IRR itself
\* is not bounded by 1e-4.
C6_IrrBracket ==
  (Done /\ result.IRR # Null) =>
     /\ QLt(QSub(hi, lo), IrrTol)
     /\ QLt(IrrLo0, lo) /\ QLt(lo, hi) /\ QLt(hi, IrrHi0)
     /\ QEq(QAdd(result.IRR[1], result.IRR[1]), QAdd(lo, hi))
     /\ QGt(NpvTest(years, lo), QZero)
     /\ QLe(NpvTest(years, hi), QZero)

\* an IRR at which the sum is a thousand times the tolerance away from zero
C6_Witness ==
  /\ Done
  /\ result.IRR # Null
  /\ QGt(QAbs(NpvTest(years, result.IRR[1])), QFrac(1, 10))

\* the discount rates a run is compared at, in percent
CompareRates == {QInt(7), QInt(10)}

\* the run's inputs at the discount rate r
AtRate(r) == [inputs EXCEPT !.r_disc = r]

\* the NPV falls strictly at every compared rate above the run's own
NpvFalls ==
  \A r \in CompareRates :
     QGt(r, inputs.r_disc) => QLt(ModelNPV(AtRate(r)), result.NPV)

\* C7 (as stated): all other inputs fixed, NPV is strictly decreasing in
\* r_disc for every cash-flow sequence with at least one nonzero value.
C7_AsStated ==
  (Done /\ \E k \in Pushed : years[k].CF.sg # 0) => NpvFalls

\* C7 (amended): all other inputs fixed, NPV is strictly decreasing in r_disc
\* when no cash flow after year 0 is negative and at least one is positive.
\* The cash flow of year 0 is not discounted, and a negative later cash flow
\* gains value as the rate rises.
C7_NpvDecreasing ==
  /\ Done => QEq(ModelNPV(inputs), result.NPV)
  /\ ( /\ Done
       /\ \A k \in Pushed : k > 1 => years[k].CF.sg >= 0
       /\ \E k \in Pushed : k > 1 /\ years[k].CF.sg > 0 ) => NpvFalls

\* a run with an investment in year 0 and returns after it, compared at a higher rate
C7_Witness ==
  /\ Done
  /\ years[1].CF.sg < 0
  /\ Len(years) >= 3
  /\ \A k \in Pushed : k > 1 => years[k].CF.sg > 0
  /\ QEq(inputs.r_disc, QZero)
  /\ NpvFalls

\* a run whose cash flows are all negative: its NPV rises with the rate
C7_WitnessRising ==
  /\ Done
  /\ Len(years) >= 2
  /\ AllCF(-1)
  /\ \A r \in CompareRates :
        QGt(r, inputs.r_disc) => QGt(ModelNPV(AtRate(r)), result.NPV)

IsIn(tag, w) == \E k \in 1..Len(w) : w[k] = tag

NoDebt == QEq(inputs.f_equity, QOne) \/ inputs.T_loan = 0

\* C8: with f_equity = 1 or a loan term of 0, annual_debt_service is 0, DS is 0
\* in every year record, every DSCR is null, DSCR_min is null and neither
\* DSCR warning is given.
C8_NoDebtNoDscr ==
  NoDebt =>
     /\ pc # "start" => QEq(annual_debt_service, QZero)
     /\ \A k \in Pushed : QEq(years[k].DS, QZero) /\ years[k].DSCR = Null
     /\ Done => /\ result.DSCR_min = Null
                /\ ~IsIn("dscr_default", result.warnings)
                /\ ~IsIn("dscr_covenant", result.warnings)

\* a finished run with a loan term of 0 on a fleet that is half debt-financed,
\* in years whose EBITDA is positive
C8_Witness ==
  /\ Done
  /\ inputs.T_loan = 0
  /\ QEq(inputs.f_equity, QFrac(1, 2))
  /\ QGt(capex_fleet_total, QZero)
  /\ Len(years) >= 2
  /\ QGt(years[2].EBITDA, QZero)

\* a finished run financed by equity alone with a loan term of 5 years
C8_WitnessEquity ==
  /\ Done
  /\ QEq(inputs.f_equity, QOne)
  /\ inputs.T_loan = 5
  /\ Len(years) >= 2
  /\ IsIn("npv_negative", result.warnings)

\* the smaller of the DSCR values of the first k records, null when there is none
RECURSIVE LeastDscr(_)
LeastDscr(k) ==
  IF k = 0 THEN Null
  ELSE IF years[k].DSCR = Null THEN LeastDscr(k - 1)
  ELSE IF LeastDscr(k - 1) = Null THEN years[k].DSCR
  ELSE IF QLt(LeastDscr(k - 1)[1], years[k].DSCR[1]) THEN LeastDscr(k - 1)
  ELSE years[k].DSCR

\* C9: in every year record DS is annual_debt_service when y < T_loan and 0
\* otherwise, whatever the number of units deployed; DSCR is non-null exactly
\* when DS > 0, and is then EBITDA / DS; DSCR_min is the least non-null DSCR,
\* and null when there is none.
C9_DebtServiceAndDscr ==
  /\ \A k \in Pushed :
        /\ years[k].y < inputs.T_loan => QEq(years[k].DS, annual_debt_service)
        /\ years[k].y >= inputs.T_loan => QEq(years[k].DS, QZero)
        /\ years[k].DSCR # Null <=> QGt(years[k].DS, QZero)
        /\ years[k].DSCR # Null =>
             QEq(QMul(years[k].DSCR[1], years[k].DS), years[k].EBITDA)
  /\ Done =>
        /\ (result.DSCR_min = Null) <=> (\A k \in Pushed : years[k].DSCR = Null)
        /\ (result.DSCR_min = Null) = (LeastDscr(Len(years)) = Null)
        /\ result.DSCR_min # Null =>
             /\ QEq(result.DSCR_min[1], LeastDscr(Len(years))[1])
             /\ \A k \in Pushed :
                   years[k].DSCR # Null => QLe(result.DSCR_min[1], years[k].DSCR[1])
             /\ \E k \in Pushed :
                   years[k].DSCR # Null /\ QEq(result.DSCR_min[1], years[k].DSCR[1])

\* a finished run with debt service in year 0, on fewer units than the fleet,
\* the same debt service in year 1, and none in the last year
C9_Witness ==
  /\ Done
  /\ Len(years) >= 3
  /\ QGt(years[1].DS, QZero)
  /\ years[1].N_deployed < years[2].N_deployed
  /\ QEq(years[1].DS, years[2].DS)
  /\ QEq(years[Len(years)].DS, QZero)
  /\ result.DSCR_min # Null
  /\ ~QEq(years[1].DSCR[1], years[2].DSCR[1])

\* the principal and the loan amount of lines 72-73, from the fleet total
Principal == QMul(capex_fleet_total, QSub(QOne, inputs.f_equity))
Financed == QAdd(Principal, QDiv(QMul(Principal, inputs.f_loan_fees), QInt(100)))

\* 1 + r_debt / 1200, and its power over the 12 * T_loan payments
MonthlyGrowth == QAdd(QOne, QDiv(inputs.r_debt, QInt(1200)))
GrowthOverTerm == QPow(MonthlyGrowth, 12 * inputs.T_loan)

\* a monthly payment of annual_debt_service / 12 repays the loan exactly:
\* loan * g^n * (g - 1) = payment * (g^n - 1), for g = 1 + r_debt / 1200
RepaysLoan ==
  QEq(QMul(QMul(Financed, GrowthOverTerm), QSub(MonthlyGrowth, QOne)),
      QMul(QDiv(annual_debt_service, QInt(12)), QSub(GrowthOverTerm, QOne)))

\* C10: annual_debt_service by case, on principal = capex_fleet_total *
\* (1 - f_equity) and loan_amount = principal * (1 + f_loan_fees / 100): with
\* principal > 0, T_loan > 0 and r_debt > 0 it is 12 monthly annuity payments
\* at the rate r_debt / 1200 over 12 * T_loan payments; with principal > 0,
\* T_loan > 0 and r_debt not > 0 it is loan_amount / T_loan; with principal <= 0
\* or T_loan <= 0 it is 0.
C10_DebtServiceCases ==
  pc # "start" =>
     /\ (Principal.sg > 0 /\ inputs.T_loan > 0 /\ inputs.r_debt.sg > 0) =>
           RepaysLoan /\ annual_debt_service.sg > 0
     /\ (Principal.sg > 0 /\ inputs.T_loan > 0 /\ inputs.r_debt.sg <= 0) =>
           QEq(QMul(annual_debt_service, QInt(inputs.T_loan)), Financed)
     /\ (Principal.sg <= 0 \/ inputs.T_loan <= 0) =>
           QEq(annual_debt_service, QZero)

\* an annuity over 24 payments
C10_Witness ==
  /\ pc = "loop"
  /\ Principal.sg > 0 /\ inputs.T_loan = 2 /\ inputs.r_debt.sg > 0
  /\ QGt(QMul(annual_debt_service, QInt(2)), Financed)

\* a straight-line payment at a negative rate
C10_WitnessStraight ==
  /\ pc = "loop"
  /\ Principal.sg > 0 /\ inputs.T_loan = 2 /\ inputs.r_debt.sg < 0
  /\ QGt(annual_debt_service, QZero)

\* no payment on a negative principal
C10_WitnessNegative ==
  /\ pc = "loop"
  /\ Principal.sg < 0 /\ inputs.T_loan > 0 /\ inputs.r_debt.sg > 0
  /\ QEq(annual_debt_service, QZero)

\* runSensitivity has returned
SensDone == fn = "sens" /\ pc = "done"

\* the place of a label in the list of parameters
ParamIndex(label) == CHOOSE k \in 1..Len(Params) : Params[k].label = label

\* the inputs with the field key scaled by num/den, written out
Scaled(key, num, den) == [inputs EXCEPT ![key] = QDiv(QMul(inputs[key], QInt(num)), QInt(den))]

\* |NPV(+20%) - NPV(-20%)| of the k-th parameter
Swing(k) ==
  QAbs(QSub(ModelNPV(Scaled(Params[k].key, 12, 10)), ModelNPV(Scaled(Params[k].key, 8, 10))))

\* C11: runSensitivity returns 8 rows, one per listed parameter (R_power,
\* R_therm, R_tipping, P_carbon, f_avail, C_biochp, C_fuel_process, r_disc),
\* with range non-increasing from the first row to the last; the row of the
\* largest |NPV(+20%) - NPV(-20%)| is first, and rows of equal range keep the
\* order of the list.
C11_SensitivityOrder ==
  SensDone =>
     /\ Len(rows) = 8
     /\ { Params[k].key : k \in 1..Len(Params) } =
          {"R_power", "R_therm", "R_tipping", "P_carbon", "f_avail", "C_biochp",
           "C_fuel_process", "r_disc"}
     /\ \A k \in 1..Len(Params) : \E i \in 1..Len(rows) : rows[i].label = Params[k].label
     /\ \A i, j \in 1..Len(rows) : rows[i].label = rows[j].label => i = j
     /\ \A i \in 1..(Len(rows) - 1) : QGe(rows[i].range, rows[i + 1].range)
     /\ \A k \in 1..Len(Params) : QGe(rows[1].range, Swing(k))
     /\ QEq(rows[1].range, Swing(ParamIndex(rows[1].label)))
     /\ \A i, j \in 1..Len(rows) :
           (i < j /\ QEq(rows[i].range, rows[j].range)) =>
              ParamIndex(rows[i].label) < ParamIndex(rows[j].label)

\* a sorted result whose first row is not the first parameter, with three
\* rows of range zero at the end in the order of the list
C11_Witness ==
  /\ SensDone
  /\ rows[1].label # Params[1].label
  /\ QGt(rows[1].range, rows[2].range)
  /\ rows[6].label = "Tipping Fee" /\ rows[7].label = "Carbon Price"
  /\ rows[8].label = "Discount Rate"
  /\ QEq(rows[6].range, QZero) /\ QEq(rows[8].range, QZero)

\* the row of the k-th parameter
RowFor(k) == rows[CHOOSE i \in 1..Len(rows) : rows[i].label = Params[k].label]

\* C12: the row of each parameter p has lo = NPV(inputs with p scaled by 0.8,
\* every other field unchanged) - baseNPV, hi = NPV(inputs with p scaled by
\* 1.2) - baseNPV and range = |hi - lo|, with baseNPV the NPV of the inputs as
\* given, computed once; the scaled value is not clamped.
C12_SensitivityRows ==
  /\ (fn = "sens" /\ pc \in {"sens_rows", "sens_sort", "done"}) =>
        QEq(baseNPV, ModelNPV(inputs))
  /\ SensDone =>
        \A k \in 1..Len(Params) :
           /\ QEq(RowFor(k).lo, QSub(ModelNPV(Scaled(Params[k].key, 8, 10)), baseNPV))
           /\ QEq(RowFor(k).hi, QSub(ModelNPV(Scaled(Params[k].key, 12, 10)), baseNPV))
           /\ QEq(RowFor(k).range, QAbs(QSub(RowFor(k).hi, RowFor(k).lo)))
           /\ \A f \in DOMAIN inputs \ {Params[k].key} :
                 Scaled(Params[k].key, 8, 10)[f] = inputs[f]

\* a row for an availability scaled above 1, whose NPV is not that of availability 1
C12_Witness ==
  /\ SensDone
  /\ QGt(QMul(inputs.f_avail, QFrac(12, 10)), QOne)
  /\ QGt(RowFor(5).hi, QSub(ModelNPV([inputs EXCEPT !.f_avail = QOne]), baseNPV))
  /\ QLt(RowFor(6).hi, QZero) /\ QGt(RowFor(6).lo, QZero)

\* calls of the same function on the same argument returned the same value
SameOutputs ==
  \A i, j \in 1..Len(calls) :
     (calls[i].fn = calls[j].fn /\ calls[i].arg = calls[j].arg) =>
        calls[i].out = calls[j].out

\* C13: runFinancialModel and runSensitivity are deterministic and
\* independent of the calls made before: calls on identical inputs return
\* identical values; and neither modifies the inputs object it is given, which
\* changes only when the caller passes another one.
C13_Deterministic ==
  /\ []SameOutputs
  /\ [][pc # "idle" => inputs' = inputs]_vars

\* the same call of runFinancialModel made a second time, after the first returned
C13_Witness ==
  /\ Len(calls) >= 2
  /\ \E i, j \in 1..Len(calls) :
        /\ i < j
        /\ calls[i].fn = "model" /\ calls[j].fn = "model"
        /\ calls[i].arg = calls[j].arg
        /\ calls[j].arg.T_project = 2

\* the number of times tag is in w
Times(tag, w) == Cardinality({ k \in 1..Len(w) : w[k] = tag })

\* C14: warnings holds the negative-NPV warning iff NPV < 0, the default-risk
\* warning iff DSCR_min is non-null and < 1.0, and the covenant warning iff
\* DSCR_min is non-null and 1.0 <= DSCR_min < 1.25; the two DSCR warnings are
\* never both given, and the fields of the result are the values computed
\* before the warnings.
C14_Warnings ==
  (fn = "model" /\ Done) =>
     /\ IsIn("npv_negative", result.warnings) <=> result.NPV.sg < 0
     /\ IsIn("dscr_default", result.warnings) <=>
          (result.DSCR_min # Null /\ QLt(result.DSCR_min[1], QOne))
     /\ IsIn("dscr_covenant", result.warnings) <=>
          (result.DSCR_min # Null /\ QGe(result.DSCR_min[1], QOne)
             /\ QLt(result.DSCR_min[1], QFrac(5, 4)))
     /\ ~(IsIn("dscr_default", result.warnings) /\ IsIn("dscr_covenant", result.warnings))
     /\ \A k \in 1..Len(result.warnings) :
           /\ result.warnings[k] \in {"npv_negative", "dscr_default", "dscr_covenant"}
           /\ Times(result.warnings[k], result.warnings) = 1
     /\ Len(result.warnings) <= 2
     /\ result.NPV = cumulative_dcf
     /\ result.payback_disc = payback_disc
     /\ result.payback_simple = payback_simple
     /\ result.DSCR_min = LeastDscr(Len(years))

\* the negative-NPV warning together with the covenant warning
C14_Witness ==
  /\ Done
  /\ result.warnings = <<"npv_negative", "dscr_covenant">>

\* a debt cover of exactly 1.0 gives the covenant warning, one of exactly 1.25 none
C14_WitnessAtOne ==
  /\ Done
  /\ result.DSCR_min # Null /\ QEq(result.DSCR_min[1], QOne)
  /\ result.warnings = <<"dscr_covenant">>

C14_WitnessAtCovenant ==
  /\ Done
  /\ result.DSCR_min # Null /\ QEq(result.DSCR_min[1], QFrac(5, 4))
  /\ result.warnings = <<>>

\* the default-risk warning alone
C14_WitnessDefault ==
  /\ Done
  /\ result.warnings = <<"dscr_default">>

\* the record that line 168 takes for year 1
YearOne == IF inputs.T_project = 0 THEN years[1] ELSE years[2]

\* C15: the guarded divisions give 0: savings_pct is 0 whenever
\* C_current_total is not > 0, and R_per_unit and its four breakdown fields
\* are 0 whenever the year-1 record (years[1], or years[0] when T_project = 0)
\* has N_deployed = 0.  Otherwise they are the quotients.
C15_DivisionGuards ==
  (fn = "model" /\ Done) =>
     /\ result.C_current_total.sg <= 0 => QEq(result.savings_pct, QZero)
     /\ result.C_current_total.sg > 0 =>
          QEq(QMul(result.savings_pct, result.C_current_total),
              QMul(QInt(100), result.savings_annual))
     /\ YearOne.N_deployed = 0 =>
          /\ QEq(result.R_per_unit, QZero)
          /\ QEq(result.R_per_unit_power, QZero)
          /\ QEq(result.R_per_unit_therm, QZero)
          /\ QEq(result.R_per_unit_tip, QZero)
          /\ QEq(result.R_per_unit_carbon, QZero)
     /\ YearOne.N_deployed > 0 =>
          /\ QEq(QMul(result.R_per_unit, QInt(YearOne.N_deployed)), YearOne.R_total)
          /\ QEq(QMul(result.R_per_unit_power, QInt(YearOne.N_deployed)), YearOne.R_pwr)
          /\ QEq(QMul(result.R_per_unit_therm, QInt(YearOne.N_deployed)), YearOne.R_thrm)
          /\ QEq(QMul(result.R_per_unit_tip, QInt(YearOne.N_deployed)), YearOne.R_tip)
          /\ QEq(QMul(result.R_per_unit_carbon, QInt(YearOne.N_deployed)), YearOne.R_crb)

\* a baseline customer cost of zero against a positive cost with the units
C15_Witness ==
  /\ Done
  /\ QEq(result.C_current_total, QZero)
  /\ QLt(result.savings_annual, QZero)
  /\ QEq(result.savings_pct, QZero)

\* a negative baseline customer cost
C15_WitnessNegative ==
  /\ Done
  /\ QLt(result.C_current_total, QZero)
  /\ QEq(result.savings_pct, QZero)

\* an empty fleet: no unit is deployed in the year-1 record, taken from years[0]
C15_WitnessEmptyFleet ==
  /\ Done
  /\ inputs.T_project = 0
  /\ YearOne.N_deployed = 0
  /\ QEq(result.R_per_unit, QZero)

\* runFinancialModel is past line 82
Costed == fn = "model" /\ pc \notin {"idle", "start"}

\* C_biochp + C_enexfuel + C_install
BaseCost == QAdd(inputs.C_biochp, QAdd(inputs.C_enexfuel, inputs.C_install))

\* n^(log(LR) / log(2)) for the n and LR of the model: LR^k for n = 2^k, and
\* 1/n at LR = 1/2
PowerOf(n) ==
  IF n = 1 THEN QOne
  ELSE IF n = 2 THEN inputs.LR
  ELSE IF n = 4 THEN QMul(inputs.LR, inputs.LR)
  ELSE IF QEq(inputs.LR, QOne) THEN QOne
  ELSE QFrac(1, n)

RECURSIVE CostOfFirst(_)
\* unit_capex[1] + ... + unit_capex[k]
CostOfFirst(k) == IF k = 0 THEN QZero ELSE QAdd(CostOfFirst(k - 1), unit_capex[k])

\* unit_capex has N_units entries, capex_fleet_total is their sum, and the
\* first entry is the base cost
UnitCostsShape ==
  /\ DOMAIN unit_capex = 1..inputs.N_units
  /\ QEq(capex_fleet_total, CostOfFirst(inputs.N_units))
  /\ inputs.N_units >= 1 => QEq(unit_capex[1], BaseCost)

C16_WitnessExact ==
  /\ Costed
  /\ inputs.N_units = 2
  /\ QEq(inputs.LR, QFrac(1, 4))
  /\ QEq(QMul(unit_capex[2], QInt(4)), BaseCost)

\* the units deployed before the k-th record
DeployedBefore(k) == IF k = 1 THEN 0 ELSE years[k - 1].N_deployed

RECURSIVE CapexThrough(_)
\* capex_year summed over the first k records
CapexThrough(k) == IF k = 0 THEN QZero ELSE QAdd(CapexThrough(k - 1), years[k].capex_year)

\* C17: with units_per_year >= 0, capex_year of year y is the sum of unit_capex
\* over the units N_deployed(y-1)+1 .. N_deployed(y), with N_deployed(-1) = 0:
\* units are recognised in the order 1..N, each in at most one year; the sum
\* of capex_year over the years equals the cost of the first N_deployed(T_project)
\* units, which is capex_fleet_total when the whole fleet is deployed within
\* the horizon, and less (for a positive unit cost) when it is not.
C17_CapexByYear ==
  (fn = "model" /\ inputs.units_per_year.sg >= 0 /\ inputs.N_units >= 0) =>
     /\ \A k \in Pushed :
           /\ DeployedBefore(k) <= years[k].N_deployed
           /\ years[k].N_deployed <= Len(unit_capex)
           /\ QEq(years[k].capex_year,
                  QSub(CostOfFirst(years[k].N_deployed), CostOfFirst(DeployedBefore(k))))
           /\ QEq(CapexThrough(k), CostOfFirst(years[k].N_deployed))
     /\ Done =>
           /\ Len(years) = inputs.T_project + 1
           /\ years[Len(years)].N_deployed = inputs.N_units =>
                QEq(CapexThrough(Len(years)), capex_fleet_total)
           /\ (years[Len(years)].N_deployed < inputs.N_units /\ BaseCost.sg > 0) =>
                QLt(CapexThrough(Len(years)), capex_fleet_total)

\* a fleet of three deployed over three years, one unit a year
C17_Witness ==
  /\ Done
  /\ inputs.N_units = 3
  /\ Len(years) = 4
  /\ years[1].N_deployed = 1 /\ years[2].N_deployed = 2 /\ years[3].N_deployed = 3
  /\ QGt(years[2].capex_year, years[3].capex_year)
  /\ QGt(years[3].capex_year, QZero)
  /\ QEq(years[4].capex_year, QZero)

\* a fleet not fully deployed within the horizon
C17_WitnessPartial ==
  /\ Done
  /\ years[Len(years)].N_deployed < inputs.N_units
  /\ Len(years) >= 2
  /\ QGt(years[2].capex_year, QZero)

RECURSIVE Compounded(_)
\* (1 + r_disc/100)^k, by repeated multiplication
Compounded(k) ==
  IF k = 0 THEN QOne
  ELSE QMul(Compounded(k - 1), QDiv(QAdd(QInt(100), inputs.r_disc), QInt(100)))

RECURSIVE DcfThrough(_)
\* DCF summed over the first k records
DcfThrough(k) == IF k = 0 THEN QZero ELSE QAdd(DcfThrough(k - 1), years[k].DCF)

\* C18: the years are T_project + 1 records with y = 0..T_project in ascending
\* order; in each record EBITDA = R_total - OPEX, CF = R_total - OPEX -
\* capex_year - DS, DCF = CF / (1 + r_disc/100)^y and cumNPV is the sum of DCF
\* over the years 0..y; the NPV returned is the cumNPV of the last record.
\* The records are read after each pass of the loop and in the result; the
\* bisection between the two leaves them as they are.
C18_YearRecords ==
  fn = "model" =>
     /\ Len(years) <= inputs.T_project + 1
     /\ pc = "loop" => Len(years) = y
     /\ pc \in {"irr", "fin", "done"} => Len(years) = inputs.T_project + 1
     /\ \A k \in (IF pc = "loop" \/ Done THEN Pushed ELSE {}) :
           /\ years[k].y = k - 1
           /\ QEq(years[k].EBITDA, QSub(years[k].R_total, years[k].OPEX))
           /\ QEq(QAdd(QAdd(QAdd(years[k].CF, years[k].DS), years[k].capex_year),
                       years[k].OPEX),
                  years[k].R_total)
           /\ QEq(QMul(years[k].DCF, Compounded(k - 1)), years[k].CF)
           /\ QEq(years[k].cumNPV, DcfThrough(k))
     /\ Done => QEq(result.NPV, years[Len(years)].cumNPV)

\* a finished run over the longest horizon, with discounting, debt service
\* in year 0, and capital cost in years 0 and 1
C18_Witness ==
  /\ Done
  /\ Len(years) = MaxT + 1
  /\ inputs.r_disc.sg > 0
  /\ QGt(years[1].DS, QZero)
  /\ QGt(years[2].capex_year, QZero)
  /\ QLt(years[1].CF, QZero)
  /\ QLt(years[3].DCF, years[3].CF)

RECURSIVE Halved(_, _)
\* w halved k times
Halved(w, k) == IF k = 0 THEN w ELSE QDiv(Halved(w, k - 1), QInt(2))

Width == QSub(hi, lo)

InBracket == QLe(IrrLo0, lo) /\ QLe(lo, hi) /\ QLe(hi, IrrHi0)

\* the bracket while the bisection runs and after it
BisectionBracket ==
  /\ InBracket
  /\ iter < 15
  /\ iter < MaxIter - 1
  /\ pc = "irr" =>
        /\ QEq(Width, Halved(QSub(IrrHi0, IrrLo0), iter))
        /\ QGe(Width, IrrTol)
  /\ pc \in {"fin", "done"} =>
        /\ iter = 14
        /\ QEq(Width, Halved(QSub(IrrHi0, IrrLo0), 15))
        /\ QLt(Width, IrrTol)

\* one iteration: one end moves to the midpoint, the other stays, and the loop
\* is left exactly when the new bracket is narrower than the tolerance
BisectionMove ==
  pc = "irr" =>
     /\ \/ QEq(lo', QDiv(QAdd(lo, hi), QInt(2))) /\ QEq(hi', hi) /\ ~QEq(lo', lo)
        \/ QEq(hi', QDiv(QAdd(lo, hi), QInt(2))) /\ QEq(lo', lo) /\ ~QEq(hi', hi)
     /\ pc' = "fin" <=> QLt(QSub(hi', lo'), IrrTol)
     /\ pc' = "irr" <=> ~QLt(QSub(hi', lo'), IrrTol)
     /\ iter' = IF pc' = "irr" THEN iter + 1 ELSE iter

\* C19: the bisection ends for every cash-flow sequence; it keeps
\* -0.5 <= lo <= hi <= 2.0, moves exactly one end to the midpoint in each
\* iteration, leaves the loop as soon as hi - lo < 1e-4, and, the bracket
\* halving from 2.5, always leaves it by that test in the 15th iteration,
\* never by the cap of 100 iterations.
C19_BisectionEnds ==
  /\ [](fn = "model" => BisectionBracket)
  /\ [][fn = "model" => BisectionMove]_vars
  /\ (pc = "irr") ~> (pc = "fin")

\* the loop left in its 15th iteration, both ends having moved
C19_Witness ==
  /\ pc = "fin"
  /\ iter = 14
  /\ QLt(Width, IrrTol)
  /\ QGt(lo, IrrLo0)
  /\ QLt(hi, IrrHi0)

\* an investment: money out in year 0, none out after it
Investment ==
  /\ Len(years) >= 2
  /\ QLt(years[1].CF, QZero)
  /\ \A k \in 2..Len(years) : QGe(years[k].CF, QZero)

\* the sum of lines 152-155 changes sign between the rates a and b
RootWithin(a, b) ==
  /\ QGe(NpvTest(years, a), QZero)
  /\ QLe(NpvTest(years, b), QZero)

\* the sum is positive at -0.5 and negative at 2.0
SignChange ==
  /\ QGt(NpvTest(years, QFrac(-1, 2)), QZero)
  /\ QLt(NpvTest(years, QInt(2)), QZero)

NearUpperEnd == RootWithin(QFrac(199, 100), QInt(2))
NearLowerEnd == RootWithin(QFrac(-1, 2), QFrac(-49, 100))

\* C20: IRR is non-null only when lo has moved more than 0.01 up from -0.5 and
\* hi more than 0.01 down from 2.0, so a non-null IRR lies strictly between
\* -0.49 and 1.99; an investment whose sum changes sign within 0.01 of an
\* end of [-0.5, 2.0] gets IRR = null although the sign change is in range.
C20_IrrAwayFromEnds ==
  (fn = "model" /\ Done) =>
     /\ result.IRR # Null <=>
           /\ QGt(QSub(lo, QFrac(-1, 2)), QFrac(1, 100))
           /\ QGt(QSub(QInt(2), hi), QFrac(1, 100))
     /\ result.IRR # Null =>
           /\ QLt(QFrac(-49, 100), result.IRR[1])
           /\ QLt(result.IRR[1], QFrac(199, 100))
     /\ (Investment /\ SignChange /\ (NearUpperEnd \/ NearLowerEnd)) =>
           result.IRR = Null

\* a sign change less than 0.01 below 2.0, found by the bisection and not reported
C20_Witness ==
  /\ fn = "model" /\ Done
  /\ Investment /\ SignChange /\ NearUpperEnd
  /\ QGt(lo, QFrac(199, 100))
  /\ QLt(hi, QInt(2))
  /\ result.IRR = Null

\* the same less than 0.01 above -0.5
C20_WitnessLower ==
  /\ fn = "model" /\ Done
  /\ Investment /\ SignChange /\ NearLowerEnd
  /\ QGt(lo, QFrac(-1, 2))
  /\ QLt(hi, QFrac(-49, 100))
  /\ result.IRR = Null

\* sign changes 0.02 from each end, reported
C20_WitnessReported ==
  /\ fn = "model" /\ Done
  /\ Investment /\ SignChange
  /\ result.IRR # Null
  /\ \/ QGt(result.IRR[1], QFrac(197, 100))
     \/ QLt(result.IRR[1], QFrac(-47, 100))

\* money in in year 0, money out after it
InflowFirst ==
  /\ Len(years) >= 2
  /\ QGt(years[1].CF, QZero)
  /\ \A k \in 2..Len(years) : QLt(years[k].CF, QZero)

\* the sum of lines 152-155 is negative at -0.5 and positive at 2.0
RisingSignChange ==
  /\ QLt(NpvTest(years, QFrac(-1, 2)), QZero)
  /\ QGt(NpvTest(years, QInt(2)), QZero)

\* the bracket has closed on one of its initial ends
AtAnEnd ==
  \/ QEq(hi, QInt(2)) /\ QLt(QSub(hi, lo), IrrTol)
  \/ QEq(lo, QFrac(-1, 2)) /\ QLt(QSub(hi, lo), IrrTol)

\* C21: the bisection takes the sum to be positive below the root and
\* non-positive above it.  A non-null IRR comes from a bracket with the sum
\* > 0 at lo and <= 0 at hi; cash flows whose sum rises through zero with the
\* rate (inflow first, outflow later, as 100 and -150 with the root 0.5)
\* drive the bracket to an end and give IRR = null though a root is in range.
C21_BisectionDirection ==
  (fn = "model" /\ Done) =>
     /\ result.IRR # Null =>
           /\ NpvTest(years, lo).sg = 1
           /\ NpvTest(years, hi).sg \in {0, -1}
     /\ (InflowFirst /\ RisingSignChange) =>
           /\ result.IRR = Null
           /\ AtAnEnd

\* cash flows 43,800 and -65,700: the root is 0.5, the first midpoint 0.75 lies
\* above it, and lo is driven up to 2.0
C21_Witness ==
  /\ fn = "model" /\ Done
  /\ InflowFirst /\ RisingSignChange
  /\ QEq(NpvTest(years, QFrac(1, 2)), QZero)
  /\ QEq(hi, QInt(2))
  /\ QGt(lo, QFrac(199, 100))
  /\ result.IRR = Null

\* cash flows 43,800 and -87,600: the root is 1.0 and hi is driven down to -0.5
C21_WitnessDown ==
  /\ fn = "model" /\ Done
  /\ InflowFirst /\ RisingSignChange
  /\ QEq(NpvTest(years, QInt(1)), QZero)
  /\ QEq(lo, QFrac(-1, 2))
  /\ QLt(hi, QFrac(-49, 100))
  /\ result.IRR = Null

Undiscounted == QEq(inputs.r_disc, QZero)

\* C22: with r_disc = 0 the discounted and the undiscounted view are one: in
\* every year DCF = CF and cumNPV is the cumulative undiscounted cash flow,
\* NPV is the plain sum of all CF, and payback_disc = payback_simple, both
\* null or both the same year.
C22_ZeroDiscount ==
  (fn = "model" /\ Undiscounted) =>
     /\ \A k \in Pushed :
           /\ QEq(years[k].DCF, years[k].CF)
           /\ QEq(years[k].cumNPV, CumCF(k))
     /\ QEq(cumulative_dcf, cumulative_cf)
     /\ payback_disc = payback_simple
     /\ Done =>
           /\ QEq(result.NPV, CumCF(Len(years)))
           /\ result.payback_disc = result.payback_simple

\* an undiscounted run that is paid back after year 1, with cash out and in
C22_Witness ==
  /\ fn = "model" /\ Done
  /\ Undiscounted
  /\ Len(years) >= 3
  /\ QLt(years[1].CF, QZero)
  /\ result.payback_disc # Null
  /\ result.payback_disc[1] >= 2
  /\ result.payback_simple = result.payback_disc

\* an undiscounted run that is never paid back
C22_WitnessNever ==
  /\ fn = "model" /\ Done
  /\ Undiscounted
  /\ Len(years) >= 3
  /\ QLt(result.NPV, QZero)
  /\ result.payback_disc = Null
  /\ result.payback_simple = Null

\* the calls i and j are of one function, on inputs that differ in C_site only
SiteOnly(i, j) ==
  /\ calls[i].fn = calls[j].fn
  /\ calls[i].arg.C_site # calls[j].arg.C_site
  /\ [calls[i].arg EXCEPT !.C_site = calls[j].arg.C_site] = calls[j].arg

\* C23: C_site has no influence.  Two inputs that differ in C_site only get
\* identical results from runFinancialModel (unit_capex, debt service, years,
\* NPV, IRR, paybacks, warnings and the rest) and identical rows from
\* runSensitivity; the first unit's capital cost is C_biochp + C_enexfuel +
\* C_install.
C23_SiteCostUnused ==
  /\ \A i, j \in 1..Len(calls) : SiteOnly(i, j) => calls[i].out = calls[j].out
  /\ (fn = "model" /\ pc \in {"loop", "irr", "fin", "done"} /\ inputs.N_units >= 1) =>
        QEq(QSub(QSub(unit_capex[1], inputs.C_install), inputs.C_enexfuel),
            inputs.C_biochp)

\* runFinancialModel returned for two inputs that differ in C_site only
C23_Witness ==
  /\ Len(calls) = 2
  /\ SiteOnly(1, 2)
  /\ calls[1].fn = "model"
  /\ Len(calls[1].out.years) = 2
  /\ Len(calls[1].out.unit_capex) = 2
  /\ calls[2].out.NPV = calls[1].out.NPV

\* runSensitivity returned for two such inputs
C23_WitnessRows ==
  /\ Len(calls) = 2
  /\ SiteOnly(1, 2)
  /\ calls[1].fn = "sens"
  /\ Len(calls[1].out) = 8
  /\ calls[2].out = calls[1].out

====
